---- MODULE Spec2Model ----
(***************************************************************************)
(* MELVcore governance kernel (src/core/melv_engine.py, class MELVKernel)  *)
(* as a state machine.                                                     *)
(*                                                                         *)
(* Numbers.  The kernel computes with Python floats.  A float is modelled  *)
(* as an exact rational [n |-> numerator, d |-> denominator] in lowest     *)
(* terms with d > 0, so that cost / benefit, beta * i and the comparisons  *)
(* with 0.70, 1.00 and 1.6 are computed, not assumed.  Float rounding is   *)
(* not modelled, with one exception: a plasticity so small that the step   *)
(* of update_phi is absorbed by the addition (see TinyEpsilon).            *)
(* A value with d = 0 stands for a Python object that is                   *)
(* not a number (a bound method of BetaEnvironment, see BetaEnvironment_get*)
(* below); arithmetic on it raises TypeError in the source.                *)
(*                                                                         *)
(* Scheduling.  Every caller of the kernel in the repository runs on the   *)
(* asyncio event loop (src/api/server.py: all endpoints and the background *)
(* driver are coroutines; src/agents/base_agent.py: run_task calls the     *)
(* kernel after its await).  No kernel method contains an await, so a      *)
(* kernel call runs from its first line to its return, or to the exception *)
(* that ends it, without another caller running in between.  Each kernel   *)
(* method is therefore one action; callers interleave between calls.       *)
(*                                                                         *)
(* Left out: the timestamp fields (wall clock), the description string of *)
(* an event (a formatted text of fields that are modelled), and the fields *)
(* name, domain, beta_pref, capabilities and created_at of an agent        *)
(* profile, which no kernel method reads or writes.  The quotient by       *)
(* sqrt(n) in compute_omega is kept symbolic (see OverSqrt).               *)
(*                                                                         *)
(* Specifications.  Spec: the ledger and the environment with all their    *)
(* inputs.  SpecRegistry: the registry operations together with the        *)
(* ledger's.  SpecReads: every read operation after a few writes.          *)
(* SpecCallers: two callers of record_interaction, interleaved.            *)
(* SpecWindow: a kernel whose ledger is longer than the windows of its     *)
(* reports, further calls and the reports.                                 *)
(***************************************************************************)
EXTENDS Integers, Sequences, FiniteSets, TLC

VARIABLES
    agents,         \* MELVKernel.agents       : dict agent_id -> AgentProfile, as the
                    \*   list of its profiles in insertion order
    interactions,   \* MELVKernel.interactions : the ledger, a list of InteractionRecord
    events,         \* MELVKernel.events       : the list of BifurcationEvent
    beta,           \* MELVKernel.beta         : BetaEnvironment, the five channel fields
    event_counter,  \* MELVKernel._event_counter
    writes,         \* number of record_interaction and provision_beta calls of the run
    agent_writes,   \* number of register_agent and update_phi calls of the run
    calls,          \* per caller, the record_interaction calls that have returned
                    \*   to it, in the order of its calls
    last            \* the call that ran last: its arguments, the eta it drew, its outcome

vars == <<agents, interactions, events, beta, event_counter, writes,
          agent_writes, calls, last>>

----------------------------------------------------------------------------
(* Exact rationals standing for floats *)

Abs(x) == IF x < 0 THEN -x ELSE x

RECURSIVE GCD(_, _)
GCD(a, b) == IF b = 0 THEN a ELSE GCD(b, a % b)

\* n / d in lowest terms with a positive denominator (d # 0)
R(n, d) ==
    LET g == GCD(Abs(n), Abs(d))
        s == IF d < 0 THEN -1 ELSE 1
    IN  [n |-> (s * n) \div g, d |-> (s * d) \div g]

Lt(x, y) == x.n * y.d < y.n * x.d
Le(x, y) == x.n * y.d <= y.n * x.d
Add(x, y) == R(x.n * y.d + y.n * x.d, x.d * y.d)
Sub(x, y) == R(x.n * y.d - y.n * x.d, x.d * y.d)
Mul(x, y) == R(x.n * y.n, x.d * y.d)
Div(x, y) == R(x.n * y.d, x.d * y.n)
AbsR(x)   == [n |-> Abs(x.n), d |-> x.d]
\* Python's max(x, y) and min(x, y) on two floats
PyMax(x, y) == IF Lt(x, y) THEN y ELSE x
PyMin(x, y) == IF Lt(y, x) THEN y ELSE x

Zero == R(0, 1)
One  == R(1, 1)

\* A bound method object: what getattr returns for the name of a method
Method == [n |-> 0, d |-> 0]
IsFloat(x) == x.d # 0

----------------------------------------------------------------------------
(* Enumerations *)

COOPERATIVE == "cooperative"
THRESHOLD   == "threshold"
CONFLICT    == "conflict"
InteractionType == {COOPERATIVE, THRESHOLD, CONFLICT}

ACTIVE    == "active"
MATURING  == "maturing"
SUSPENDED == "suspended"
RETIRED   == "retired"
AgentStatus == {ACTIVE, MATURING, "threshold", SUSPENDED, RETIRED}

NUDGE            == "nudge"
NICHE_DIVERGENCE == "niche_divergence"
PROVISION_BETA   == "provision_beta"
KernelAction == {"none", NUDGE, NICHE_DIVERGENCE, "route_service",
                 "agent_substitute", PROVISION_BETA}

----------------------------------------------------------------------------
(* Program constants *)

COOPERATIVE_THRESHOLD == R(70, 100)
CONFLICT_THRESHOLD    == R(100, 100)
DEGENERATE_I_one      == R(1, 1)       \* (variant: the penalty is 1.0)
DEGENERATE_I          == R(2, 1)       \* i_factor when benefit <= 0
NUDGE_FLOOR           == R(1, 10)      \* max(0.1, ...)
NUDGE_STEP            == R(8, 100)     \* ... - 0.08
PROVISION_CUTOFF      == R(16, 10)     \* if bi < 1.6
NICHE_FACTOR          == R(65, 100)    \* bi * 0.65
PROVISION_FACTOR      == R(50, 100)    \* bi * 0.50
BETA_MIN              == R(1, 10)      \* max(0.1, ...
BETA_MAX              == R(3, 1)       \* ... min(3.0, value))
GET_DEFAULT           == R(1, 1)       \* getattr(self, resource, 1.0)
CI_WINDOW             == 50            \* self.interactions[-50:]
PHI_RATE              == R(1, 100)     \* agent.epsilon * 0.01
PHI_MIDPOINT_one      == R(1, 1)       \* (variant: the midpoint is 1.0)
PHI_MIDPOINT          == R(1, 2)       \* (outcome_quality - 0.5)
PROMOTE_PHI           == R(75, 100)    \* agent.phi >= 0.75
FORCE_ACTIVE_PHI      == R(90, 100)    \* agent.phi >= 0.90

\* The dataclass fields of BetaEnvironment, with their defaults
Channels == {"compute", "api_quota", "vector_db", "storage", "token_budget"}
BetaDefaults ==
    [r \in Channels |->
        CASE r = "compute"      -> R(10, 10)
          [] r = "api_quota"    -> R(9, 10)
          [] r = "vector_db"    -> R(12, 10)
          [] r = "storage"      -> R(8, 10)
          [] r = "token_budget" -> R(11, 10)]
\* The methods of BetaEnvironment: names getattr finds on the class
MethodNames == {"get", "mean", "to_dict"}

----------------------------------------------------------------------------
(* InteractionRecord: [agent_a, agent_b, cost, benefit, beta] *)

\* (variant: the degenerate rule tests benefit < 0)
i_factor_strict(r) ==
    IF Lt(r.benefit, Zero) THEN DEGENERATE_I ELSE Div(r.cost, r.benefit)

\* i = C/B
i_factor(r) ==
    IF Le(r.benefit, Zero) THEN DEGENERATE_I ELSE Div(r.cost, r.benefit)

\* beta * i; evaluated only where r.beta is a float (TypeError otherwise)
beta_i(r) == Mul(r.beta, i_factor(r))

\* (variant: the first comparison is <=)
interaction_type_le(r) ==
    LET bi == beta_i(r)
    IN  IF Le(bi, COOPERATIVE_THRESHOLD) THEN COOPERATIVE
        ELSE IF Lt(bi, CONFLICT_THRESHOLD) THEN THRESHOLD
        ELSE CONFLICT

interaction_type(r) ==
    LET bi == beta_i(r)
    IN  IF Lt(bi, COOPERATIVE_THRESHOLD) THEN COOPERATIVE
        ELSE IF Lt(bi, CONFLICT_THRESHOLD) THEN THRESHOLD
        ELSE CONFLICT

\* (variant: the value the channel had at construction)
BetaEnvironment_get_initial(env, resource) ==
    IF resource \in DOMAIN BetaDefaults THEN BetaDefaults[resource]
    ELSE IF resource \in MethodNames THEN Method
    ELSE GET_DEFAULT

\* BetaEnvironment.get: getattr(self, resource, 1.0).  The instance holds the
\* five fields; the class holds the methods; any other name gives the default.
BetaEnvironment_get(env, resource) ==
    IF resource \in DOMAIN env THEN env[resource]
    ELSE IF resource \in MethodNames THEN Method
    ELSE GET_DEFAULT

----------------------------------------------------------------------------
(* BifurcationEvent:                                                       *)
(*   [event_id, agent_a, agent_b, beta_i_pre, beta_i_post, action, resolved] *)

RECURSIVE Digits(_)
\* the decimal digits of n >= 0, most significant first
Digits(n) == IF n < 10 THEN <<n>> ELSE Append(Digits(n \div 10), n % 10)

RECURSIVE ZeroPad(_, _)
ZeroPad(ds, width) == IF Len(ds) >= width THEN ds ELSE ZeroPad(<<0>> \o ds, width)

\* f"BIF-{counter:04d}"
FormatEventId(counter) == [prefix |-> "BIF-", digits |-> ZeroPad(Digits(counter), 4)]

\* (variant: eta is subtracted with its sign)
NudgeProjection_signed(bi, eta) == PyMax(NUDGE_FLOOR, Sub(Sub(bi, eta), NUDGE_STEP))

\* line 289: new_bi of the threshold branch
NudgeProjection(bi, eta) == PyMax(NUDGE_FLOOR, Sub(Sub(bi, AbsR(eta)), NUDGE_STEP))

\* (variant: the conflict branch compares bi <= 1.6)
Intervention_le(record, eta) ==
    LET bi == beta_i(record)
    IN  IF interaction_type(record) = THRESHOLD
        THEN [new_bi |-> NudgeProjection(bi, eta), action |-> NUDGE]
        ELSE IF Le(bi, PROVISION_CUTOFF)
        THEN [new_bi |-> Mul(bi, NICHE_FACTOR), action |-> NICHE_DIVERGENCE]
        ELSE [new_bi |-> Mul(bi, PROVISION_FACTOR), action |-> PROVISION_BETA]

\* lines 285-314: the projected value and the action chosen for a record
Intervention(record, eta) ==
    LET bi == beta_i(record)
    IN  IF interaction_type(record) = THRESHOLD
        THEN [new_bi |-> NudgeProjection(bi, eta), action |-> NUDGE]
        ELSE IF Lt(bi, PROVISION_CUTOFF)
        THEN [new_bi |-> Mul(bi, NICHE_FACTOR), action |-> NICHE_DIVERGENCE]
        ELSE [new_bi |-> Mul(bi, PROVISION_FACTOR), action |-> PROVISION_BETA]

\* (variant: resolved compares new_bi <= 1.00)
Resolved_le(new_bi) == Le(new_bi, CONFLICT_THRESHOLD)

\* line 325
Resolved(new_bi) == Lt(new_bi, CONFLICT_THRESHOLD)

\* lines 316-326: the event built for a record, counter being the value of
\* _event_counter after its increment
BifurcationEvent(record, eta, counter) ==
    LET iv == Intervention(record, eta)
    IN  [event_id    |-> FormatEventId(counter),
         agent_a     |-> record.agent_a,
         agent_b     |-> record.agent_b,
         beta_i_pre  |-> beta_i(record),
         beta_i_post |-> iv.new_bi,
         action      |-> iv.action,
         resolved    |-> Resolved(iv.new_bi)]

\* (variant: the kernel responds to every record)
RespondsTo_all(record) == TRUE

\* (variant: the kernel responds to Conflict only)
RespondsTo_conflict_only(record) == interaction_type(record) = CONFLICT

\* lines 271-272: the classes the kernel responds to
RespondsTo(record) == interaction_type(record) \in {THRESHOLD, CONFLICT}

\* (variant: the lower clamp is missing)
ClampBeta_nofloor(value) == PyMin(BETA_MAX, value)

\* (variant: the value is not capped at 3.0)
ClampBeta_nocap(value) == PyMax(BETA_MIN, value)

\* line 449
ClampBeta(value) == PyMax(BETA_MIN, PyMin(BETA_MAX, value))

----------------------------------------------------------------------------
(* Bounds and inputs *)

\* Calls that change the kernel (record_interaction, provision_beta) in one run
MaxCalls == 2

\* The two participants of an interaction
Pairs == {<<"A", "B">>}

\* (cost, benefit) of an interaction: i = 0.7, i = 1.0 by a real division,
\* i = 1.3, benefit = 0, benefit < 0 with cost 0, and a negative cost
Loads == {<<R(7, 10), One>>, <<R(1, 2), R(1, 2)>>, <<R(13, 10), One>>,
          <<One, Zero>>, <<Zero, R(-1, 1)>>, <<R(-1, 2), One>>}

\* resource_type of record_interaction is any string (server.py:104-109 passes
\* the request's string on): the five channels, the name of a method of
\* BetaEnvironment, and a name BetaEnvironment does not have
ResourceTypes == Channels \cup {"mean", "gpu"}

\* provision_beta is called with one of the five channels only
\* (server.py:170-173 rejects any other name before the call)
\* with a value below the range, inside it, and above it
ProvisionValues == {R(-1, 1), R(35, 100), R(5, 1)}

\* eta = random.gauss(0, 0.05): any real; zero, a typical draw, a far tail
Etas == {Zero, R(-5, 100), One}

\* Calls of any kind that change the kernel in one run of SpecRegistry and
\* of SpecCallers
MaxSteps == 3

\* The callers of record_interaction: the POST /api/interactions endpoint
\* (a client sending one request after the other) and the background driver
\* simulate_interactions (a loop)
Callers == {"api", "driver"}

\* AgentProfile: [agent_id, phi, epsilon, status, task_count, success_rate]
\* (name, domain, beta_pref, capabilities and created_at are never read or
\* written by a kernel method other than to_dict and are left out)
Profile(agent_id, phi, epsilon, status) ==
    [agent_id |-> agent_id, phi |-> phi, epsilon |-> epsilon, status |-> status,
     task_count |-> 0, success_rate |-> Zero]

\* 1e-18: a positive plasticity whose step epsilon * 0.01 * (quality - 0.5) is
\* smaller than 2^-54, half the spacing of the doubles in [0.5, 1), so that the
\* sum phi + delta of line 230 rounds back to phi. Only its sign is used; the
\* profile that carries it starts at phi = 0.5 and therefore stays there
TinyEpsilon == [n |-> 1, d |-> 1, absorbed |-> TRUE]
IsAbsorbed(epsilon) == "absorbed" \in DOMAIN epsilon

\* Profiles handed to register_agent: a new profile has the dataclass defaults
\* task_count = 0 and success_rate = 0.0; phi is in [0, 1] and epsilon is
\* positive at every call site (src/agents/implementations.py); the statuses
\* are those a profile can be built with
Profiles ==
    {Profile("A", R(50, 100), R(4, 1), MATURING),
     Profile("A", R(74, 100), R(8, 1), MATURING),
     Profile("A", R(50, 100), TinyEpsilon, MATURING),
     Profile("A", R(89, 100), R(8, 1), SUSPENDED),
     Profile("B", R(97, 100), R(8, 1), RETIRED),
     Profile("B", R(2, 100),  R(8, 1), ACTIVE),
     Profile("B", R(76, 100), R(4, 1), SUSPENDED)}

\* agent_id of update_phi: "A" and "B" are unknown until registered
AgentIds == {"A", "B"}

\* outcome_quality of update_phi is any float: a good and a poor outcome, and
\* one above the expected range [0, 1]
Qualities == {R(9, 10), R(1, 10), R(15, 10)}

\* The value of last before any call; every call overwrites last with its op,
\* whether it raised, its arguments (resource, agent_id, value, n), the eta it
\* drew and the value it returned
NoCall == [op |-> "init", raised |-> FALSE, resource |-> "", agent_id |-> "",
           value |-> Zero, eta |-> Zero, ret |-> Zero, n |-> 0]

----------------------------------------------------------------------------
(* The kernel *)

\* MELVKernel.__init__
Init ==
    /\ agents = <<>>
    /\ agent_writes = 0
    /\ interactions = <<>>
    /\ events = <<>>
    /\ beta = BetaDefaults
    /\ event_counter = 0
    /\ writes = 0
    /\ calls = [c \in Callers |-> <<>>]
    /\ last = NoCall

\* (variant: the identifier is formatted before the counter is incremented)
kernel_respond_stale(record, eta) ==
    /\ event_counter' = event_counter + 1
    /\ events' = Append(events, BifurcationEvent(record, eta, event_counter))

\* (variant: the event is put in front of the log)
kernel_respond_front(record, eta) ==
    /\ event_counter' = event_counter + 1
    /\ events' = <<BifurcationEvent(record, eta, event_counter + 1)>> \o events

\* (variant: the record is put in front)
LedgerAppend_front(ledger, record) == <<record>> \o ledger

\* line 268: self.interactions.append(record)
LedgerAppend(ledger, record) == Append(ledger, record)

\* _kernel_respond(record) with the eta its threshold branch draws
kernel_respond(record, eta) ==
    /\ event_counter' = event_counter + 1
    /\ events' = Append(events, BifurcationEvent(record, eta, event_counter + 1))

\* random.gauss is called in the threshold branch only
EtaDraws(record) == IF interaction_type(record) = THRESHOLD THEN Etas ELSE {Zero}

record_interaction(agent_a, agent_b, cost, benefit, resource_type) ==
    LET b      == BetaEnvironment_get(beta, resource_type)
        record == [agent_a |-> agent_a, agent_b |-> agent_b,
                   cost |-> cost, benefit |-> benefit, beta |-> b]
        call   == [NoCall EXCEPT !.op = "record_interaction",
                                 !.resource = resource_type]
    IN  /\ writes' = writes + 1
        /\ interactions' = LedgerAppend(interactions, record)
        /\ UNCHANGED <<beta, agents, agent_writes>>
        /\ IF ~IsFloat(b)
           THEN \* record.interaction_type multiplies a method by a float:
                \* TypeError leaves the call at line 271, the record appended
                /\ UNCHANGED <<events, event_counter>>
                /\ last' = [call EXCEPT !.raised = TRUE]
           ELSE IF RespondsTo(record)
           THEN \E eta \in EtaDraws(record) :
                    /\ kernel_respond(record, eta)
                    /\ last' = [call EXCEPT !.eta = eta, !.ret = record]
           ELSE /\ UNCHANGED <<events, event_counter>>
                /\ last' = [call EXCEPT !.ret = record]

\* (variant: the value is written to every channel)
provision_beta_all(resource, value) ==
    /\ writes' = writes + 1
    /\ beta' = [r \in DOMAIN beta \cup {resource} |-> ClampBeta(value)]
    /\ last' = [NoCall EXCEPT !.op = "provision_beta",
                              !.resource = resource, !.value = value]
    /\ UNCHANGED <<interactions, events, event_counter, agents, agent_writes>>

provision_beta(resource, value) ==
    /\ writes' = writes + 1
    /\ beta' = [r \in DOMAIN beta \cup {resource} |->
                   IF r = resource THEN ClampBeta(value) ELSE beta[r]]
    /\ last' = [NoCall EXCEPT !.op = "provision_beta",
                              !.resource = resource, !.value = value]
    /\ UNCHANGED <<interactions, events, event_counter, agents, agent_writes>>

\* self.agents.get(agent_id): the position of the profile stored under
\* agent_id, 0 for None
AgentIndex_first(agent_id) ==
    IF \E k \in DOMAIN agents : agents[k].agent_id = agent_id
    THEN CHOOSE k \in DOMAIN agents : agents[k].agent_id = agent_id
    ELSE IF agents = <<>> THEN 0 ELSE 1

AgentIndex(agent_id) ==
    IF \E k \in DOMAIN agents : agents[k].agent_id = agent_id
    THEN CHOOSE k \in DOMAIN agents : agents[k].agent_id = agent_id
    ELSE 0

\* (variant: a profile already stored under the identity is kept)
register_agent_keep(profile) ==
    LET k == AgentIndex(profile.agent_id)
    IN  /\ agents' = IF k = 0 THEN Append(agents, profile) ELSE agents
        /\ agent_writes' = agent_writes + 1
        /\ last' = [NoCall EXCEPT !.op = "register_agent",
                                  !.agent_id = profile.agent_id, !.ret = profile]
        /\ UNCHANGED <<interactions, events, beta, event_counter, writes>>

\* self.agents[profile.agent_id] = profile: a dict keeps the position of a key
\* that is already present and puts a new key last; the profile is returned
register_agent(profile) ==
    LET k == AgentIndex(profile.agent_id)
    IN  /\ agents' = IF k = 0 THEN Append(agents, profile)
                              ELSE [agents EXCEPT ![k] = profile]
        /\ agent_writes' = agent_writes + 1
        /\ last' = [NoCall EXCEPT !.op = "register_agent",
                                  !.agent_id = profile.agent_id, !.ret = profile]
        /\ UNCHANGED <<interactions, events, beta, event_counter, writes>>

\* (variant: no upper clamp)
ClampPhi_nocap(x) == PyMax(Zero, x)

\* line 231: max(0.0, min(1.0, ...))
ClampPhi(x) == PyMax(Zero, PyMin(One, x))

\* (variant: the task is not counted)
CountTask_same(n) == n

\* line 232: agent.task_count += 1
CountTask(n) == n + 1

\* (variant: an Active agent below the promotion level is Maturing again)
NextStatus_demoting(status, phi) ==
    IF Le(PROMOTE_PHI, phi) /\ status = MATURING THEN ACTIVE
    ELSE IF Le(FORCE_ACTIVE_PHI, phi) THEN ACTIVE
    ELSE IF status = ACTIVE /\ Lt(phi, PROMOTE_PHI) THEN MATURING
    ELSE status

\* (variant: both branches promote a Maturing agent only)
NextStatus_maturing_only(status, phi) ==
    IF Le(PROMOTE_PHI, phi) /\ status = MATURING THEN ACTIVE ELSE status

\* lines 240-244
NextStatus(status, phi) ==
    IF Le(PROMOTE_PHI, phi) /\ status = MATURING THEN ACTIVE
    ELSE IF Le(FORCE_ACTIVE_PHI, phi) THEN ACTIVE
    ELSE status

\* lines 229-244: the profile after one update with outcome_quality
Matured(agent, outcome_quality) ==
    LET delta == Mul(Mul(agent.epsilon, PHI_RATE), Sub(outcome_quality, PHI_MIDPOINT))
        phi   == IF IsAbsorbed(agent.epsilon) THEN ClampPhi(agent.phi)
                 ELSE ClampPhi(Add(agent.phi, delta))
        count == CountTask(agent.task_count)
        rate  == Div(Add(Mul(agent.success_rate, R(count - 1, 1)), outcome_quality),
                     R(count, 1))
    IN  [agent EXCEPT !.phi = phi, !.task_count = count, !.success_rate = rate,
                      !.status = NextStatus(agent.status, phi)]

update_phi(agent_id, outcome_quality) ==
    LET k == AgentIndex(agent_id)
    IN  /\ agents' = IF k = 0 THEN agents
                              ELSE [agents EXCEPT ![k] = Matured(@, outcome_quality)]
        /\ agent_writes' = agent_writes + 1
        /\ last' = [NoCall EXCEPT !.op = "update_phi", !.agent_id = agent_id,
                                  !.value = outcome_quality]
        /\ UNCHANGED <<interactions, events, beta, event_counter, writes>>

\* self.interactions[-n:] for n > 0
Recent(seq, n) ==
    IF Len(seq) <= n THEN seq ELSE SubSeq(seq, Len(seq) - n + 1, Len(seq))

RECURSIVE SumBetaI(_)
\* sum(r.beta_i for r in recent)
SumBetaI(seq) ==
    IF seq = <<>> THEN Zero
    ELSE IF Len(seq) = 1 THEN beta_i(seq[1])
    ELSE LET half == Len(seq) \div 2
         IN  Add(SumBetaI(SubSeq(seq, 1, half)),
                 SumBetaI(SubSeq(seq, half + 1, Len(seq))))

\* The value cooperation_index returns when no record of the window raises
CooperationIndexOf(ledger) ==
    LET recent == Recent(ledger, CI_WINDOW)
    IN  IF recent = <<>> THEN One
        ELSE LET mean_bi == Div(SumBetaI(recent), R(Len(recent), 1))
             IN  PyMax(Zero, PyMin(One, Sub(One, mean_bi)))

\* r.beta_i raises TypeError for a record whose beta is not a float
CooperationIndexRaises(ledger) ==
    \E k \in DOMAIN Recent(ledger, CI_WINDOW) :
        ~IsFloat(Recent(ledger, CI_WINDOW)[k].beta)

cooperation_index ==
    /\ last' = IF CooperationIndexRaises(interactions)
               THEN [NoCall EXCEPT !.op = "cooperation_index", !.raised = TRUE]
               ELSE [NoCall EXCEPT !.op = "cooperation_index",
                                   !.ret = CooperationIndexOf(interactions)]
    /\ UNCHANGED <<agents, interactions, events, beta, event_counter, writes,
                   agent_writes>>

\* The caller's side of a record_interaction call: when the call returns, the
\* caller holds the returned record; the ledger and the events log are as
\* long as the call left them, and logged tells whether the call logged an
\* event.  A call that raises returns nothing.
Returned(caller) ==
    calls' = IF last'.raised THEN calls
             ELSE [calls EXCEPT ![caller] =
                      Append(@, [record     |-> last'.ret,
                                 ledger_len |-> Len(interactions'),
                                 events_len |-> Len(events'),
                                 logged     |-> Len(events') > Len(events)])]

----------------------------------------------------------------------------
(* The reads *)

RECURSIVE Pow10(_)
Pow10(k) == IF k = 0 THEN 1 ELSE 10 * Pow10(k - 1)

\* round(x, k): the nearest multiple of 10^-k, a tie going to the even one
\* (computed on the exact value; the binary representation is not modelled)
Round(x, k) ==
    LET scaled == x.n * Pow10(k)
        q      == scaled \div x.d
        r      == scaled % x.d
    IN  R(IF 2 * r < x.d THEN q
          ELSE IF 2 * r > x.d THEN q + 1
          ELSE IF q % 2 = 0 THEN q ELSE q + 1, Pow10(k))

\* seq[-n:] for any integer n: the last n elements for n > 0, the whole list
\* for n = 0 (-0 is 0), the list without its first -n elements for n < 0
\* (variant: the whole list whatever n)
Slice_all(seq, n) == seq

Slice(seq, n) ==
    IF n > 0 THEN (IF Len(seq) <= n THEN seq
                   ELSE SubSeq(seq, Len(seq) - n + 1, Len(seq)))
    ELSE SubSeq(seq, 1 - n, Len(seq))

RECURSIVE Sum(_)
\* sum(xs) of a list of floats
Sum(xs) ==
    IF xs = <<>> THEN Zero
    ELSE IF Len(xs) = 1 THEN xs[1]
    ELSE LET half == Len(xs) \div 2
         IN  Add(Sum(SubSeq(xs, 1, half)), Sum(SubSeq(xs, half + 1, Len(xs))))

\* sum(xs) / len(xs)
Mean(xs) == Div(Sum(xs), R(Len(xs), 1))

\* AgentProfile.maturity_label
maturity_label(agent) ==
    IF Le(R(85, 100), agent.phi) THEN "expert"
    ELSE IF Le(R(65, 100), agent.phi) THEN "proficient"
    ELSE IF Le(R(40, 100), agent.phi) THEN "developing"
    ELSE "novice"

\* AgentProfile.to_dict (of the fields that are modelled)
AgentDict(agent) ==
    [agent_id |-> agent.agent_id, phi |-> agent.phi, epsilon |-> agent.epsilon,
     status |-> agent.status, task_count |-> agent.task_count,
     success_rate |-> agent.success_rate, maturity_label |-> maturity_label(agent)]

\* InteractionRecord.to_dict; round(self.beta, 4) raises TypeError when beta
\* is not a number
RecordDict(r) ==
    [agent_a |-> r.agent_a, agent_b |-> r.agent_b,
     cost |-> Round(r.cost, 4), benefit |-> Round(r.benefit, 4),
     beta |-> Round(r.beta, 4), i_factor |-> Round(i_factor(r), 4),
     beta_i |-> Round(beta_i(r), 4), interaction_type |-> interaction_type(r)]

\* BifurcationEvent.to_dict
EventDict(e) ==
    [event_id |-> e.event_id, agent_a |-> e.agent_a, agent_b |-> e.agent_b,
     beta_i_pre |-> Round(e.beta_i_pre, 4), beta_i_post |-> Round(e.beta_i_post, 4),
     action |-> e.action, resolved |-> e.resolved]

\* A record of seq carries a beta that is not a number
Poisoned(seq) == \E k \in DOMAIN seq : ~IsFloat(seq[k].beta)

\* The state a read leaves, and what it reports in last
Read(op, raised, ret) ==
    /\ last' = [NoCall EXCEPT !.op = op, !.raised = raised,
                              !.ret = IF raised THEN Zero ELSE ret]
    /\ UNCHANGED <<agents, interactions, events, beta, event_counter, writes,
                   agent_writes>>

\* get_agent: the profile, or None; reported as a list of one or of none
get_agent(agent_id) ==
    LET k == AgentIndex(agent_id)
    IN  /\ last' = [NoCall EXCEPT !.op = "get_agent", !.agent_id = agent_id,
                                  !.ret = IF k = 0 THEN <<>> ELSE <<agents[k]>>]
        /\ UNCHANGED <<agents, interactions, events, beta, event_counter, writes,
                       agent_writes>>

get_all_agents ==
    Read("get_all_agents", FALSE, [k \in DOMAIN agents |-> AgentDict(agents[k])])

get_recent_interactions(n) ==
    LET recent == Slice(interactions, n)
        raised == Poisoned(recent)
    IN  /\ last' = [NoCall EXCEPT !.op = "get_recent_interactions", !.n = n,
                                  !.raised = raised,
                                  !.ret = IF raised THEN Zero
                                          ELSE [k \in DOMAIN recent |->
                                                   RecordDict(recent[k])]]
        /\ UNCHANGED <<agents, interactions, events, beta, event_counter, writes,
                       agent_writes>>

\* (variant: the events returned are taken off the log)
get_recent_events_drain(n) ==
    /\ last' = [NoCall EXCEPT !.op = "get_recent_events", !.n = n,
                              !.ret = [k \in DOMAIN Slice(events, n) |->
                                          EventDict(Slice(events, n)[k])]]
    /\ events' = SubSeq(events, 1, Len(events) - Len(Slice(events, n)))
    /\ UNCHANGED <<agents, interactions, beta, event_counter, writes, agent_writes>>

get_recent_events(n) ==
    /\ last' = [NoCall EXCEPT !.op = "get_recent_events", !.n = n,
                              !.ret = [k \in DOMAIN Slice(events, n) |->
                                          EventDict(Slice(events, n)[k])]]
    /\ UNCHANGED <<agents, interactions, events, beta, event_counter, writes,
                   agent_writes>>

\* The order of the identities as strings
IdOrder == <<"A", "B">>
Rank(id) == CHOOSE k \in DOMAIN IdOrder : IdOrder[k] = id

\* tuple(sorted([r.agent_a, r.agent_b]))
PairKey(r) ==
    IF Rank(r.agent_a) <= Rank(r.agent_b) THEN <<r.agent_a, r.agent_b>>
    ELSE <<r.agent_b, r.agent_a>>

\* The keys of the weights dict, in the order of their insertion: a key is
\* inserted by the first record of the window that has it
KeysOf(seq) ==
    LET firsts == SelectSeq([k \in DOMAIN seq |-> k],
                            LAMBDA k : \A j \in 1..(k - 1) :
                                          PairKey(seq[j]) # PairKey(seq[k]))
    IN  [m \in DOMAIN firsts |-> PairKey(seq[firsts[m]])]

\* 1.0 - r.i_factor
Weight(r) == Sub(One, i_factor(r))

\* avg of weights[key] over the records of seq with that key
AvgWeight(seq, key) ==
    LET vals == SelectSeq(seq, LAMBDA r : PairKey(r) = key)
    IN  Mean([k \in DOMAIN vals |-> Weight(vals[k])])

\* The label of an edge
EdgeLabel(avg) ==
    IF Lt(R(30, 100), avg) THEN "cooperative"
    ELSE IF Lt(Zero, avg) THEN "threshold"
    ELSE "conflict"

Edge(seq, key) ==
    [agent_a |-> key[1], agent_b |-> key[2],
     weight |-> Round(AvgWeight(seq, key), 3),
     interaction_type |-> EdgeLabel(AvgWeight(seq, key))]

\* x / max(1, math.sqrt(n)): sqrt(n) is irrational for n = 2, 3, ...; the
\* quotient is kept as the pair it is computed from, and the rounding of
\* lambda_max and beta_service to 4 places is not carried out
OverSqrt(x, n) == [value |-> x, over_sqrt_of |-> n]

OMEGA_WINDOW == 100

\* The dict compute_omega returns for a registry and a ledger
Omega(registry, ledger) ==
    LET n      == Len(registry)
        recent == Slice(ledger, OMEGA_WINDOW)
        keys   == KeysOf(recent)
        total_weight == Sum([k \in DOMAIN keys |-> AvgWeight(recent, keys[k])])
    IN  IF n = 0
        THEN [lambda_max |-> OverSqrt(Zero, 0), n |-> 0,
              beta_service |-> OverSqrt(Zero, 0), edges |-> <<>>]
        ELSE [lambda_max |-> OverSqrt(total_weight, n), n |-> n,
              beta_service |-> OverSqrt(Div(total_weight, R(n, 1)), n),
              edges |-> [k \in DOMAIN keys |-> Edge(recent, keys[k])]]

compute_omega == Read("compute_omega", FALSE, Omega(agents, interactions))

HEALTH_EVENTS == 10

\* The dict ecosystem_health returns when no record of its window raises
Health(registry, ledger, log, env) ==
    LET recent      == Slice(ledger, CI_WINDOW)
        n_agents    == Len(registry)
        log_tail    == Slice(log, HEALTH_EVENTS)
        type_counts == [t \in InteractionType |->
                           Cardinality({k \in DOMAIN recent :
                                           interaction_type(recent[k]) = t})]
        statuses    == {registry[k].status : k \in DOMAIN registry}
    IN  [cooperation_index     |-> Round(CooperationIndexOf(ledger), 4),
         mean_i_factor         |-> IF recent = <<>> THEN Zero
                                   ELSE Round(Mean([k \in DOMAIN recent |->
                                                       i_factor(recent[k])]), 4),
         mean_beta_i           |-> IF recent = <<>> THEN Zero
                                   ELSE Round(Mean([k \in DOMAIN recent |->
                                                       beta_i(recent[k])]), 4),
         mean_phi              |-> IF n_agents = 0 THEN Zero
                                   ELSE Round(Mean([k \in DOMAIN registry |->
                                                       registry[k].phi]), 4),
         mean_epsilon          |-> IF n_agents = 0 THEN Zero
                                   ELSE Round(Mean([k \in DOMAIN registry |->
                                                       registry[k].epsilon]), 4),
         n_agents              |-> n_agents,
         n_interactions_total  |-> Len(ledger),
         interaction_breakdown |-> type_counts,
         agent_status_counts   |-> [st \in statuses |->
                                      Cardinality({k \in DOMAIN registry :
                                                      registry[k].status = st})],
         beta_environment      |-> [c \in Channels |-> env[c]],
         omega                 |-> Omega(registry, ledger),
         recent_events         |-> [k \in DOMAIN log_tail |-> EventDict(log_tail[k])],
         threshold_zone_count  |-> type_counts[THRESHOLD],
         conflict_count        |-> type_counts[CONFLICT]]

\* r.interaction_type raises TypeError for a record of the window whose beta
\* is not a number
ecosystem_health ==
    Read("ecosystem_health", Poisoned(Slice(interactions, CI_WINDOW)),
         Health(agents, interactions, events, beta))

RecordInteraction ==
    \E p \in Pairs, l \in Loads, rt \in ResourceTypes :
        /\ writes < MaxCalls
        /\ record_interaction(p[1], p[2], l[1], l[2], rt)
        /\ Returned("api")

ProvisionBeta ==
    \E r \in Channels, v \in ProvisionValues :
        /\ writes < MaxCalls
        /\ provision_beta(r, v)
        /\ UNCHANGED calls

CooperationIndex == cooperation_index /\ UNCHANGED calls

Next == RecordInteraction \/ ProvisionBeta \/ CooperationIndex

Spec == Init /\ [][Next]_vars

\* The registry with the ledger: the agents' operations, and the ledger's with
\* fewer inputs (a Cooperative and a Conflict load; a channel, a re-provisioned
\* channel and a method name)
RegistryLoads     == {<<R(7, 10), One>>, <<R(13, 10), One>>}
RegistryResources == {"compute", "storage", "mean"}

StepsLeft == writes + agent_writes < MaxSteps

RegisterAgent ==
    \E profile \in Profiles :
        StepsLeft /\ register_agent(profile) /\ UNCHANGED calls

UpdatePhi ==
    \E id \in AgentIds, q \in Qualities :
        StepsLeft /\ update_phi(id, q) /\ UNCHANGED calls

RegistryRecord ==
    \E p \in Pairs, l \in RegistryLoads, rt \in RegistryResources :
        /\ StepsLeft
        /\ record_interaction(p[1], p[2], l[1], l[2], rt)
        /\ Returned("api")

RegistryProvision ==
    StepsLeft /\ provision_beta("storage", R(5, 1)) /\ UNCHANGED calls

NextRegistry ==
    RegisterAgent \/ UpdatePhi \/ RegistryRecord \/ RegistryProvision \/ CooperationIndex

SpecRegistry == Init /\ [][NextRegistry]_vars

\* Two callers of record_interaction, their calls interleaved with each
\* other's and with provision_beta and update_phi calls.  A Cooperative, a
\* Threshold and a Conflict load on compute, and the method name.
CallerLoads     == {<<R(1, 2), One>>, <<R(7, 10), One>>, <<R(13, 10), One>>}
CallerResources == {"compute", "mean"}

CallerRecord ==
    \E c \in Callers, p \in Pairs, l \in CallerLoads, rt \in CallerResources :
        /\ StepsLeft
        /\ rt \in Channels \/ c = "api"    \* the driver picks a channel
        /\ record_interaction(p[1], p[2], l[1], l[2], rt)
        /\ Returned(c)

CallerProvision ==
    StepsLeft /\ provision_beta("compute", R(35, 100)) /\ UNCHANGED calls

CallerRegister ==
    StepsLeft /\ register_agent(Profile("A", R(50, 100), R(4, 1), MATURING))
              /\ UNCHANGED calls

CallerUpdate == StepsLeft /\ update_phi("A", R(9, 10)) /\ UNCHANGED calls

\* The reads, after a few writes: both orders of a pair, a Cooperative and a
\* Conflict load, a channel and the method name; n of a list read is any
\* integer (server.py passes the query parameter on)
ReadPairs     == {<<"A", "B">>, <<"B", "A">>}
ReadLoads     == {<<R(1, 3), One>>, <<R(13, 10), One>>}
ReadResources == {"compute", "mean"}
ReadCounts    == {0, 1, 20}

ReadsRecord ==
    \E p \in ReadPairs, l \in ReadLoads, rt \in ReadResources :
        /\ StepsLeft
        /\ record_interaction(p[1], p[2], l[1], l[2], rt)
        /\ Returned("api")

ReadsRegister ==
    \E profile \in {Profile("A", R(50, 100), R(4, 1), MATURING),
                     Profile("A", R(74, 100), R(8, 1), MATURING),
                     Profile("B", R(97, 100), R(8, 1), RETIRED)} :
        StepsLeft /\ register_agent(profile) /\ UNCHANGED calls

ReadsUpdate == StepsLeft /\ update_phi("A", R(9, 10)) /\ UNCHANGED calls

ReadsProvision ==
    StepsLeft /\ provision_beta("compute", R(35, 100)) /\ UNCHANGED calls

GetAgent == \E id \in AgentIds : get_agent(id) /\ UNCHANGED calls

GetAllAgents == get_all_agents /\ UNCHANGED calls

GetRecentInteractions ==
    \E n \in ReadCounts : get_recent_interactions(n) /\ UNCHANGED calls

GetRecentEvents == \E n \in ReadCounts : get_recent_events(n) /\ UNCHANGED calls

ComputeOmega == compute_omega /\ UNCHANGED calls

EcosystemHealth == ecosystem_health /\ UNCHANGED calls

NextReads ==
    \/ ReadsRecord \/ ReadsRegister \/ ReadsUpdate \/ ReadsProvision
    \/ GetAgent \/ GetAllAgents \/ GetRecentInteractions \/ GetRecentEvents
    \/ CooperationIndex \/ ComputeOmega \/ EcosystemHealth

SpecReads == Init /\ [][NextReads]_vars

NextCallers == CallerRecord \/ CallerProvision \/ CallerRegister \/ CallerUpdate

SpecCallers == Init /\ [][NextCallers]_vars

\* A kernel that has been serving for a while: the ledger is longer than the
\* windows of cooperation_index and ecosystem_health (50) and of compute_omega
\* (100), the events log longer than the 10 events ecosystem_health reports.
\* The record record_interaction builds on the default compute channel
ServedRecord(agent_a, agent_b, cost, benefit) ==
    [agent_a |-> agent_a, agent_b |-> agent_b, cost |-> cost, benefit |-> benefit,
     beta |-> BetaEnvironment_get(BetaDefaults, "compute")]

\* How many Conflict records (B, A, 1.3, 1.0) were recorded first and how many
\* Cooperative records (A, B, 1/3, 1.0) after them: ledgers of 1 to 100 records
ServedConflicts == {1, 10}
ServedFills     == {0, 39, 40, 89, 90}

ServedLedger(conflicts, fills) ==
    [k \in 1..(conflicts + fills) |->
        IF k <= conflicts THEN ServedRecord("B", "A", R(13, 10), One)
        ELSE ServedRecord("A", "B", R(1, 3), One)]

\* The events log after record_interaction was called for each record of the
\* ledger in turn on a fresh kernel: the k-th record that _kernel_respond is
\* called for gets the k-th event (no record of the ledger is in the
\* Threshold class, so no eta was drawn)
ServedEvents(ledger) ==
    LET flagged == SelectSeq(ledger, LAMBDA record : RespondsTo(record))
    IN  [k \in DOMAIN flagged |-> BifurcationEvent(flagged[k], Zero, k)]

\* The kernel after those calls; writes, agent_writes, calls and last count
\* and report the calls made from here on
InitWindow ==
    \E conflicts \in ServedConflicts, fills \in ServedFills :
        /\ interactions = ServedLedger(conflicts, fills)
        /\ events = ServedEvents(interactions)
        /\ event_counter = Len(events)
        /\ beta = BetaDefaults
        /\ agents = <<>>
        /\ agent_writes = 0
        /\ writes = 0
        /\ calls = [c \in Callers |-> <<>>]
        /\ last = NoCall

WindowLoads == {<<R(1, 3), One>>, <<R(13, 10), One>>}

WindowRecord ==
    \E l \in WindowLoads :
        /\ StepsLeft
        /\ record_interaction("A", "B", l[1], l[2], "compute")
        /\ Returned("driver")

WindowRegister ==
    StepsLeft /\ register_agent(Profile("A", R(50, 100), R(4, 1), MATURING))
              /\ UNCHANGED calls

NextWindow ==
    WindowRecord \/ WindowRegister \/ CooperationIndex \/ ComputeOmega \/ EcosystemHealth

SpecWindow == InitWindow /\ [][NextWindow]_vars

----------------------------------------------------------------------------
(* Shared vocabulary of the properties *)

LastRecord == interactions[Len(interactions)]
LastEvent  == events[Len(events)]

\* The stability class by the ranges of beta*i, written out with the numbers
InThresholdZone(bi) == Le(R(7, 10), bi) /\ Lt(bi, R(1, 1))
InConflictZone(bi)  == Le(R(1, 1), bi)

\* The ledger records that carry a number as beta and fall in the Threshold or
\* the Conflict range (a record whose beta is not a number has no class)
Flagged(ledger) ==
    SelectSeq(ledger, LAMBDA r : IsFloat(r.beta) /\
                 (InThresholdZone(Mul(r.beta, i_factor(r))) \/
                  InConflictZone(Mul(r.beta, i_factor(r)))))

----------------------------------------------------------------------------
(* C1: in every state a reader can observe (kernel calls do not interleave), *)
(* the ledger and the events log agree: the k-th event is the event of the  *)
(* k-th Threshold- or Conflict-class record of the ledger, so every such    *)
(* record has its event, every event has its triggering record, and the     *)
(* number of events is the number of Threshold/Conflict records.            *)
C1_LedgerEventsAgree ==
    LET f == Flagged(interactions)
    IN  /\ Len(events) = Len(f)
        /\ \A k \in DOMAIN events :
              /\ events[k].agent_a = f[k].agent_a
              /\ events[k].agent_b = f[k].agent_b
              /\ events[k].beta_i_pre = Mul(f[k].beta, i_factor(f[k]))

\* A ledger with a Cooperative record and a flagged record, and the one event
C1_Witness ==
    /\ Len(interactions) = 2
    /\ Len(Flagged(interactions)) = 1
    /\ Len(events) = 1
    /\ \E k \in DOMAIN interactions :
          IsFloat(interactions[k].beta) /\ interaction_type(interactions[k]) = COOPERATIVE

(* C2: for every record, with bi = beta * i_factor, the class is Cooperative *)
(* iff bi < 0.70, Threshold iff 0.70 <= bi < 1.00, Conflict iff bi >= 1.00;  *)
(* exactly one class applies, also at bi = 0.70, bi = 1.00 and for bi < 0.   *)
C2_ClassByRange ==
    \A k \in DOMAIN interactions :
        LET r  == interactions[k]
            bi == Mul(r.beta, i_factor(r))
            c  == interaction_type(r)
        IN  IsFloat(r.beta) =>
              /\ c \in InteractionType
              /\ (c = COOPERATIVE) <=> Lt(bi, R(7, 10))
              /\ (c = THRESHOLD)   <=> (Le(R(7, 10), bi) /\ Lt(bi, R(1, 1)))
              /\ (c = CONFLICT)    <=> Le(R(1, 1), bi)

\* Records at both boundaries: bi = 0.70 classed Threshold, bi = 1.00 Conflict
C2_Witness ==
    /\ \E k \in DOMAIN interactions :
          /\ IsFloat(interactions[k].beta)
          /\ beta_i(interactions[k]) = R(7, 10)
          /\ interaction_type(interactions[k]) = THRESHOLD
    /\ \E k \in DOMAIN interactions :
          /\ IsFloat(interactions[k].beta)
          /\ beta_i(interactions[k]) = R(1, 1)
          /\ interaction_type(interactions[k]) = CONFLICT

(* C3: the interaction coefficient of a record is cost / benefit whenever   *)
(* benefit > 0 (i * benefit = cost), and is 2.0 whenever benefit <= 0,      *)
(* whatever the cost.                                                       *)
C3_IFactor ==
    \A k \in DOMAIN interactions :
        LET r == interactions[k]
            i == i_factor(r)
        IN  /\ r.benefit.n > 0  => (i.d > 0 /\ i.n * r.benefit.n * r.cost.d
                                               = r.cost.n * i.d * r.benefit.d)
            /\ r.benefit.n <= 0 => i = R(2, 1)

\* A record with negative benefit and zero cost, and one with benefit 0.5
C3_Witness ==
    /\ \E k \in DOMAIN interactions :
          interactions[k].benefit.n < 0 /\ interactions[k].cost.n = 0
    /\ \E k \in DOMAIN interactions :
          interactions[k].benefit = R(1, 2) /\ i_factor(interactions[k]) = One

\* A step that is a record_interaction call: the ledger grew by one record
RecordStep == Len(interactions') = Len(interactions) + 1
NewRecord  == interactions'[Len(interactions')]
NewEvent   == events'[Len(events')]

(* C4, as claimed: a recordInteraction call with benefit <= 0 that samples a *)
(* channel value yields a record classified Threshold or Conflict and has   *)
(* appended a bifurcation event for it.                                     *)
C4_DegenerateAlwaysFlagged ==
    (/\ last.op = "record_interaction"
     /\ IsFloat(LastRecord.beta)
     /\ Le(LastRecord.benefit, Zero))
    => /\ interaction_type(LastRecord) \in {THRESHOLD, CONFLICT}
       /\ events # <<>>
       /\ LastEvent.beta_i_pre = beta_i(LastRecord)

(* C4, amended: a recordInteraction call with benefit <= 0 that samples a   *)
(* channel value b has bi = 2 * b; it yields a Threshold or Conflict record *)
(* and appends exactly one event when b >= 0.35, and yields a Cooperative   *)
(* record and appends no event when b < 0.35.                               *)
C4_DegenerateFlaggedFromBeta ==
    [][(RecordStep /\ IsFloat(NewRecord.beta) /\ Le(NewRecord.benefit, Zero)) =>
         /\ beta_i(NewRecord) = Mul(R(2, 1), NewRecord.beta)
         /\ Le(R(35, 100), NewRecord.beta) =>
               /\ interaction_type(NewRecord) \in {THRESHOLD, CONFLICT}
               /\ Len(events') = Len(events) + 1
               /\ SubSeq(events', 1, Len(events)) = events
               /\ NewEvent.beta_i_pre = Mul(R(2, 1), NewRecord.beta)
         /\ Lt(NewRecord.beta, R(35, 100)) =>
               /\ interaction_type(NewRecord) = COOPERATIVE
               /\ events' = events
      ]_vars

\* A degenerate call on a channel provisioned below 0.35: Cooperative, no event
C4_Witness ==
    /\ last.op = "record_interaction"
    /\ last.resource \in Channels
    /\ Le(LastRecord.benefit, Zero)
    /\ Lt(LastRecord.beta, R(35, 100))
    /\ interaction_type(LastRecord) = COOPERATIVE
    /\ events = <<>>

(* C5: every recordInteraction call whose record is Threshold-class         *)
(* (0.70 <= bi < 1.00) appends exactly one event, with action Nudge and     *)
(* resolved = true, for every eta; its projected post value is              *)
(* max(0.1, bi - |eta| - 0.08).                                             *)
C5_ThresholdNudge ==
    [][(RecordStep /\ IsFloat(NewRecord.beta)
          /\ InThresholdZone(Mul(NewRecord.beta, i_factor(NewRecord)))) =>
         LET bi == Mul(NewRecord.beta, i_factor(NewRecord))
             v  == Sub(Sub(bi, AbsR(last'.eta)), R(8, 100))
         IN  /\ Len(events') = Len(events) + 1
             /\ SubSeq(events', 1, Len(events)) = events
             /\ NewEvent.action = NUDGE
             /\ NewEvent.resolved = TRUE
             /\ NewEvent.beta_i_pre = bi
             /\ NewEvent.beta_i_post = IF Lt(v, R(1, 10)) THEN R(1, 10) ELSE v
      ]_vars

\* A Threshold-class call that drew a negative eta, and its Nudge
C5_Witness ==
    /\ last.op = "record_interaction"
    /\ ~last.raised
    /\ interaction_type(LastRecord) = THRESHOLD
    /\ last.eta.n < 0
    /\ events # <<>>
    /\ LastEvent.action = NUDGE
    /\ Lt(R(1, 10), LastEvent.beta_i_post)

(* C6: every recordInteraction call whose record is Conflict-class appends  *)
(* exactly one event: NicheDivergence with projected value bi * 0.65 when   *)
(* bi < 1.6, ProvisionBeta with projected value bi * 0.50 when bi >= 1.6.   *)
C6_ConflictIntervention ==
    [][(RecordStep /\ IsFloat(NewRecord.beta)
          /\ InConflictZone(Mul(NewRecord.beta, i_factor(NewRecord)))) =>
         LET bi == Mul(NewRecord.beta, i_factor(NewRecord))
         IN  /\ Len(events') = Len(events) + 1
             /\ SubSeq(events', 1, Len(events)) = events
             /\ NewEvent.beta_i_pre = bi
             /\ Lt(bi, R(16, 10)) =>
                   /\ NewEvent.action = NICHE_DIVERGENCE
                   /\ NewEvent.beta_i_post = Mul(bi, R(65, 100))
             /\ Le(R(16, 10), bi) =>
                   /\ NewEvent.action = PROVISION_BETA
                   /\ NewEvent.beta_i_post = Mul(bi, R(1, 2))
      ]_vars

\* bi exactly 1.6 took ProvisionBeta, after an earlier NicheDivergence
C6_Witness ==
    /\ last.op = "record_interaction"
    /\ ~last.raised
    /\ beta_i(LastRecord) = R(16, 10)
    /\ Len(events) = 2
    /\ events[1].action = NICHE_DIVERGENCE
    /\ events[2].action = PROVISION_BETA
    /\ events[2].beta_i_post = R(8, 10)

(* C7: every event of the events log has resolved = true iff its projected  *)
(* post-intervention value is below 1.00.                                   *)
C7_ResolvedIffBelowConflict ==
    \A k \in DOMAIN events :
        events[k].resolved <=> Lt(events[k].beta_i_post, R(1, 1))

\* A NicheDivergence event projected at 1.00 or more, logged unresolved, and
\* a ProvisionBeta event projected at exactly 1.00, logged unresolved
C7_Witness ==
    /\ \E k \in DOMAIN events :
          /\ events[k].action = NICHE_DIVERGENCE
          /\ Le(R(1, 1), events[k].beta_i_post)
          /\ events[k].resolved = FALSE
    /\ \E k \in DOMAIN events :
          /\ events[k].action = PROVISION_BETA
          /\ events[k].beta_i_post = R(1, 1)
          /\ events[k].resolved = FALSE

(* C8: after any sequence of provisionBeta calls every channel value lies   *)
(* in [0.1, 3.0]: a write above 3.0 stores 3.0, a write below 0.1 stores    *)
(* 0.1, a write inside the range stores the value itself.                   *)
C8_ChannelsClamped ==
    /\ \A r \in DOMAIN beta : Le(R(1, 10), beta[r]) /\ Le(beta[r], R(3, 1))
    /\ last.op = "provision_beta" =>
          beta[last.resource] =
              IF Lt(R(3, 1), last.value) THEN R(3, 1)
              ELSE IF Lt(last.value, R(1, 10)) THEN R(1, 10)
              ELSE last.value

\* A write below 0.1 stored 0.1, after a write above 3.0 that stored 3.0
C8_Witness ==
    /\ last.op = "provision_beta"
    /\ Lt(last.value, R(1, 10))
    /\ beta[last.resource] = R(1, 10)
    /\ \E r \in DOMAIN beta : beta[r] = R(3, 1)

(* C9, as claimed: a recordInteraction call whose resource type is not one  *)
(* of the five channels samples beta = 1.0 for its record.                  *)
C9_UnknownChannelNeutral ==
    (last.op = "record_interaction" /\ last.resource \notin Channels)
    => LastRecord.beta = R(1, 1)

(* C10, as claimed: cooperationIndex returns 1.0 when the ledger is empty,  *)
(* and otherwise 1 minus the mean bi of the most recent 50 ledger records   *)
(* clamped into [0, 1]; the result is always within [0, 1].                 *)
C10_CooperationIndex ==
    last.op = "cooperation_index" =>
        /\ ~last.raised
        /\ Le(Zero, last.ret) /\ Le(last.ret, One)
        /\ interactions = <<>> => last.ret = One
        /\ interactions # <<>> =>
              LET n    == IF Len(interactions) < 50 THEN Len(interactions) ELSE 50
                  s    == SumBetaI(SubSeq(interactions, Len(interactions) - n + 1,
                                          Len(interactions)))
                  \* the mean is s / n: compare s with 0 and with n
              IN  /\ s.n <= 0 => last.ret = One
                  /\ s.n >= n * s.d => last.ret = Zero
                  /\ (0 < s.n /\ s.n < n * s.d) =>
                        last.ret = R(n * s.d - s.n, n * s.d)

----------------------------------------------------------------------------
(* Vocabulary of the registry properties *)

\* The step is a call of update_phi / register_agent (each counts itself)
UpdateStep   == agent_writes' = agent_writes + 1 /\ last'.op = "update_phi"
RegisterStep == agent_writes' = agent_writes + 1 /\ last'.op = "register_agent"

\* The identities that have a profile in the registry
Registered(registry) == {registry[k].agent_id : k \in DOMAIN registry}

\* The profile stored under id in a registry that has one
ProfileOf(registry, id) ==
    registry[CHOOSE k \in DOMAIN registry : registry[k].agent_id = id]

InUnit(x) == Le(R(0, 1), x) /\ Le(x, R(1, 1))

(* C11: an updateMaturity call with an identity that has no profile in the  *)
(* registry raises nothing and leaves registry, ledger, events, event       *)
(* counter and environment as they were.                                    *)
C11_UnknownIdentityNoOp ==
    [][(UpdateStep /\ last'.agent_id \notin Registered(agents)) =>
          /\ ~last'.raised
          /\ agents' = agents
          /\ interactions' = interactions
          /\ events' = events
          /\ event_counter' = event_counter
          /\ beta' = beta]_vars

\* update_phi has just been called with an identity that is not registered, on
\* a kernel that holds another agent and a record
C11_Witness ==
    /\ last.op = "update_phi"
    /\ last.agent_id \notin Registered(agents)
    /\ Len(agents) = 1
    /\ Len(interactions) = 1

(* C12: after every updateMaturity call on a registered agent that agent's  *)
(* maturity is in [0, 1], for every outcomeQuality and plasticity; with      *)
(* every agent registered with maturity in [0, 1], every profile's maturity  *)
(* is in [0, 1] in every state.                                              *)
C12_MaturityInUnit ==
    \A k \in DOMAIN agents : InUnit(agents[k].phi)

\* An update with an outcome quality above 1 has taken a maturity past 1.0,
\* and the profile holds 1.0
C12_Witness ==
    /\ last.op = "update_phi"
    /\ last.value = R(15, 10)
    /\ \E k \in DOMAIN agents :
          /\ agents[k].agent_id = last.agent_id
          /\ agents[k].task_count = 1
          /\ agents[k].phi = R(1, 1)

(* C13, as claimed: in every state every registered agent's rolling mean     *)
(* success is in [0, 1], whatever outcomeQuality values updateMaturity was   *)
(* called with.                                                              *)
C13_SuccessRateInUnit ==
    \A k \in DOMAIN agents : InUnit(agents[k].success_rate)

(* C14, as claimed: over every step of every kernel operation, register      *)
(* included, the task count stored under an identity does not decrease, and  *)
(* an updateMaturity on a known identity adds exactly 1.                     *)
C14_TaskCountNeverDecreases ==
    [][\A id \in Registered(agents) :
          /\ id \in Registered(agents')
          /\ ProfileOf(agents', id).task_count >= ProfileOf(agents, id).task_count
          /\ (UpdateStep /\ last'.agent_id = id) =>
                ProfileOf(agents', id).task_count = ProfileOf(agents, id).task_count + 1]_vars

(* C14, amended: an identity once registered stays registered; its task      *)
(* count is raised by exactly 1 by an updateMaturity on it, is replaced by   *)
(* the task count of the new profile (0 for a new profile) by a register     *)
(* under the same identity, and is unchanged by every other step.            *)
C14_TaskCountUnlessReplaced ==
    [][\A id \in Registered(agents) :
          /\ id \in Registered(agents')
          /\ ProfileOf(agents', id).task_count =
                IF UpdateStep /\ last'.agent_id = id
                THEN ProfileOf(agents, id).task_count + 1
                ELSE IF RegisterStep /\ last'.agent_id = id
                THEN 0
                ELSE ProfileOf(agents, id).task_count]_vars

\* Two updates of one agent since its registration: 2 tasks
C14_Witness ==
    /\ last.op = "update_phi"
    /\ \E k \in DOMAIN agents :
          agents[k].agent_id = last.agent_id /\ agents[k].task_count = 2

(* C15: after updateMaturity on a registered agent, with m the new maturity, *)
(* the status is Active if m >= 0.90 (whatever the prior status) or if       *)
(* m >= 0.75 and the prior status was Maturing; otherwise it is unchanged.   *)
C15_StatusRule ==
    [][\A id \in Registered(agents) :
          (UpdateStep /\ last'.agent_id = id) =>
             LET m     == ProfileOf(agents', id).phi
                 prior == ProfileOf(agents, id).status
             IN  ProfileOf(agents', id).status =
                    IF Le(R(90, 100), m) \/ (Le(R(75, 100), m) /\ prior = "maturing")
                    THEN "active" ELSE prior]_vars

\* The agent registered Suspended at 0.89 is Active after one update that
\* took it to 0.922 (no Maturing profile of "A" gets to 0.90 in one update)
C15_Witness ==
    /\ last.op = "update_phi"
    /\ last.agent_id = "A"
    /\ \E k \in DOMAIN agents :
          /\ agents[k].agent_id = "A"
          /\ agents[k].task_count = 1
          /\ agents[k].phi = R(922, 1000)
          /\ agents[k].status = ACTIVE

----------------------------------------------------------------------------
(* Vocabulary of the ledger properties over all operations *)

\* The step is a call of record_interaction / provision_beta
RecordCall    == writes' = writes + 1 /\ last'.op = "record_interaction"
ProvisionCall == writes' = writes + 1 /\ last'.op = "provision_beta"

RECURSIVE DigitsValue(_)
\* The number a sequence of decimal digits writes
DigitsValue(ds) ==
    IF ds = <<>> THEN 0
    ELSE 10 * DigitsValue(SubSeq(ds, 1, Len(ds) - 1)) + ds[Len(ds)]

(* C16: the ledger is append-only.  A recordInteraction call appends exactly *)
(* one record at the end; every other step (register, updateMaturity,        *)
(* provisionBeta, a read) leaves the ledger as it is; no step removes,       *)
(* reorders or alters a record, so a record keeps the beta sampled when it   *)
(* was recorded, and with it its beta*i and class, when its channel is       *)
(* provisioned afterwards.                                                   *)
C16_LedgerAppendOnly ==
    [][/\ Len(interactions') >= Len(interactions)
       /\ SubSeq(interactions', 1, Len(interactions)) = interactions
       /\ Len(interactions') = IF RecordCall THEN Len(interactions) + 1
                                              ELSE Len(interactions)
       /\ ProvisionCall =>
             \A k \in DOMAIN interactions :
                 /\ interactions'[k].beta = interactions[k].beta
                 /\ IsFloat(interactions[k].beta) =>
                       interaction_type(interactions'[k]) = interaction_type(interactions[k])]_vars

\* The storage channel was provisioned to 3.0 after a Conflict record sampled
\* 0.8 from it: the record still holds 0.8
C16_Witness ==
    /\ last.op = "provision_beta"
    /\ beta["storage"] = R(3, 1)
    /\ Len(interactions) >= 1
    /\ interactions[1].beta = R(8, 10)
    /\ interaction_type(interactions[1]) = CONFLICT

(* C17: in every state the k-th event of the events log carries the          *)
(* identifier "BIF-" followed by k written with at least four digits, the    *)
(* identifiers' numbers strictly increase along the log (so no two events    *)
(* share one), and the event counter equals the number of events.            *)
C17_EventIdsSequential ==
    /\ event_counter = Len(events)
    /\ \A k \in DOMAIN events :
          /\ events[k].event_id.prefix = "BIF-"
          /\ Len(events[k].event_id.digits) >= 4
          /\ DigitsValue(events[k].event_id.digits) = k
    /\ \A j, k \in DOMAIN events :
          j < k => DigitsValue(events[j].event_id.digits) <
                      DigitsValue(events[k].event_id.digits)

\* Two flagged records have logged two events, the second numbered 0002
C17_Witness ==
    /\ Len(events) = 2
    /\ events[2].event_id.digits = <<0, 0, 0, 2>>
    /\ event_counter = 2

(* C18: an intervention is logged, not enforced.  A recordInteraction call,  *)
(* with or without an event, leaves every channel and every agent profile    *)
(* as they were; the beta of its record on a channel is the channel's        *)
(* current value and its beta*i is that value times its own cost / benefit   *)
(* (2.0 for benefit <= 0), whatever post values earlier events carry.        *)
C18_LoggedNotEnforced ==
    [][RecordCall =>
          /\ beta' = beta
          /\ agents' = agents
          /\ last'.resource \in Channels =>
                /\ NewRecord.beta = beta[last'.resource]
                /\ beta_i(NewRecord) =
                      Mul(beta[last'.resource],
                          IF Lt(R(0, 1), NewRecord.benefit)
                          THEN Div(NewRecord.cost, NewRecord.benefit)
                          ELSE R(2, 1))]_vars

\* With an agent registered: a Conflict record on compute logged an event
\* projecting 1.3 -> 0.845, and the next record on compute has beta*i = 1.3
\* again and logs the same projection
C18_Witness ==
    /\ last.op = "record_interaction"
    /\ Len(agents) = 1
    /\ Len(interactions) = 2
    /\ Len(events) = 2
    /\ events[1].beta_i_pre = R(13, 10)
    /\ events[1].beta_i_post = R(845, 1000)
    /\ events[2].beta_i_pre = R(13, 10)
    /\ beta = BetaDefaults

(* C20: for each caller, if its recordInteraction call r1 returned before    *)
(* it invoked r2, the record r1 returned stands in the ledger before the     *)
(* record r2 returned, and the event r1 logged, if both logged one, stands   *)
(* in the events log before the event r2 logged, whatever calls of other     *)
(* callers ran in between.                                                   *)
C20_CallOrderIsLedgerOrder ==
    \A c \in Callers :
        \A i, j \in DOMAIN calls[c] :
            i < j =>
               LET r1 == calls[c][i]
                   r2 == calls[c][j]
               IN  /\ r1.ledger_len < r2.ledger_len
                   /\ interactions[r1.ledger_len] = r1.record
                   /\ interactions[r2.ledger_len] = r2.record
                   /\ (r1.logged /\ r2.logged) =>
                         /\ r1.events_len < r2.events_len
                         /\ events[r1.events_len].beta_i_pre = beta_i(r1.record)
                         /\ events[r2.events_len].beta_i_pre = beta_i(r2.record)

\* Two calls of the api caller, both with an event, and between them a call
\* of the driver that put its own record and event in between
C20_Witness ==
    /\ Len(calls["api"]) = 2
    /\ Len(calls["driver"]) = 1
    /\ calls["api"][1].logged /\ calls["api"][2].logged
    /\ calls["driver"][1].logged
    /\ calls["api"][1].ledger_len < calls["driver"][1].ledger_len
    /\ calls["driver"][1].ledger_len < calls["api"][2].ledger_len
    /\ calls["api"][1].record # calls["api"][2].record

\* The read operations, and a read that repeats the call before it
ReadOps == {"get_agent", "get_all_agents", "get_recent_interactions",
            "get_recent_events", "cooperation_index", "compute_omega",
            "ecosystem_health"}
SameCallAgain ==
    last.op = last'.op /\ last.agent_id = last'.agent_id /\ last.n = last'.n

(* C19: each of getAgent, listAgents, listInteractions, listEvents,          *)
(* cooperationIndex, computeCouplingNetwork and ecosystemHealth leaves       *)
(* registry, ledger, events, event counter and environment as they were,     *)
(* and a read that repeats the call before it (same read, same argument, no  *)
(* write in between) ends the same way with the same result.                 *)
C19_ReadsArePure ==
    [][last'.op \in ReadOps =>
          /\ agents' = agents
          /\ interactions' = interactions
          /\ events' = events
          /\ event_counter' = event_counter
          /\ beta' = beta
          /\ SameCallAgain =>
                (last'.raised = last.raised /\ last'.ret = last.ret)]_vars

\* ecosystem_health has reported on a kernel with two agents and a Conflict
\* record with its event
C19_Witness ==
    /\ last.op = "ecosystem_health"
    /\ ~last.raised
    /\ last.ret.n_agents = 2
    /\ last.ret.conflict_count = 1
    /\ Len(last.ret.recent_events) = 1
    /\ Len(last.ret.omega.edges) = 1

----------------------------------------------------------------------------
(* C21: register(profile) stores the profile under its identity and returns  *)
(* it without raising; when the identity was present the old profile is      *)
(* replaced and the number of agents is unchanged, otherwise the number      *)
(* grows by one; the other profiles are untouched.  getAgent of a registered *)
(* identity returns the stored profile, getAgent of an identity that is not  *)
(* registered returns absent, and neither raises.                            *)
C21_RegisterAndGet ==
    [][/\ RegisterStep =>
             /\ ~last'.raised
             /\ last'.ret.agent_id = last'.agent_id
             /\ last'.agent_id \in Registered(agents')
             /\ ProfileOf(agents', last'.agent_id) = last'.ret
             /\ Len(agents') = IF last'.agent_id \in Registered(agents)
                               THEN Len(agents) ELSE Len(agents) + 1
             /\ \A id \in Registered(agents) \ {last'.agent_id} :
                    /\ id \in Registered(agents')
                    /\ ProfileOf(agents', id) = ProfileOf(agents, id)
       /\ last'.op = "get_agent" =>
             /\ ~last'.raised
             /\ last'.ret = IF last'.agent_id \in Registered(agents)
                            THEN <<ProfileOf(agents, last'.agent_id)>>
                            ELSE <<>>]_vars

\* After three registry calls that left one agent, get_agent("A") returns the
\* profile registered last under "A", as it was handed in
C21_Witness ==
    /\ last.op = "get_agent"
    /\ last.agent_id = "A"
    /\ agent_writes = 3
    /\ Len(agents) = 1
    /\ last.ret = <<Profile("A", R(74, 100), R(8, 1), MATURING)>>

(* C22, as claimed: listInteractions(n) and listEvents(n) with n >= 0 return *)
(* exactly the min(n, L) most recent entries of a log of length L, in log    *)
(* order; n = 0 returns the empty list.                                      *)
C22_SuffixReads ==
    (last.op \in {"get_recent_interactions", "get_recent_events"}
        /\ ~last.raised /\ last.n >= 0) =>
       LET L     == IF last.op = "get_recent_events" THEN Len(events)
                    ELSE Len(interactions)
           count == IF last.n < L THEN last.n ELSE L
       IN  /\ Len(last.ret) = count
           /\ \A k \in 1..count :
                 last.ret[k] = IF last.op = "get_recent_events"
                               THEN EventDict(events[L - count + k])
                               ELSE RecordDict(interactions[L - count + k])

(* C23, as claimed: recordInteraction, updateMaturity, provisionBeta,        *)
(* cooperationIndex, computeCouplingNetwork and ecosystemHealth never end in *)
(* an error, for any cost, benefit, outcomeQuality and resource-type string; *)
(* recordInteraction never appends a record and then fails.                  *)
C23_NoOperationRaises ==
    last.op \in {"record_interaction", "update_phi", "provision_beta",
                 "cooperation_index", "compute_omega", "ecosystem_health"}
       => ~last.raised

C24_AbsorbedWitness ==
    /\ last.op = "update_phi"
    /\ last.value = R(9, 10)
    /\ \E k \in DOMAIN agents :
          /\ agents[k].agent_id = last.agent_id
          /\ agents[k].epsilon = TinyEpsilon
          /\ agents[k].task_count = 1
          /\ agents[k].phi = R(1, 2)

(* C25: computeCouplingNetwork returns exactly one edge for each unique      *)
(* unordered pair of participants appearing in the last 100 ledger records   *)
(* (records (A,B) and (B,A) feed the same edge; records before the last 100  *)
(* feed none); the edge weight is the average of 1 - i_factor over that      *)
(* pair's records in the window, and the edge is labelled cooperative if     *)
(* weight > 0.30, threshold if 0 < weight <= 0.30, and conflict if           *)
(* weight <= 0; n is the number of registered agents.                        *)
C25_OneEdgePerPair ==
    (last.op = "compute_omega" /\ ~last.raised) =>
        LET len    == Len(interactions)
            window == {k \in DOMAIN interactions : k > len - 100}
            pairs  == {{interactions[k].agent_a, interactions[k].agent_b} :
                          k \in window}
            edges  == last.ret.edges
            of(e)  == {k \in window :
                          {interactions[k].agent_a, interactions[k].agent_b}
                             = {e.agent_a, e.agent_b}}
            total(e) == LET RECURSIVE Tot(_)
                            Tot(ks) == IF ks = {} THEN R(0, 1)
                                       ELSE LET k == CHOOSE x \in ks : TRUE
                                            IN  Add(Tot(ks \ {k}),
                                                    Sub(R(1, 1),
                                                        i_factor(interactions[k])))
                        IN  Tot(of(e))
            avg(e) == Div(total(e), R(Cardinality(of(e)), 1))
        IN  /\ last.ret.n = Len(agents)
            /\ Len(edges) = Cardinality(pairs)
            /\ \A p \in pairs : \E k \in DOMAIN edges :
                  {edges[k].agent_a, edges[k].agent_b} = p
            /\ \A k \in DOMAIN edges :
                  /\ {edges[k].agent_a, edges[k].agent_b} \in pairs
                  /\ edges[k].weight = avg(edges[k])
                  /\ edges[k].interaction_type =
                        IF Lt(R(30, 100), edges[k].weight) THEN "cooperative"
                        ELSE IF Lt(R(0, 1), edges[k].weight) THEN "threshold"
                        ELSE "conflict"

(* C26: when provisionBeta on a channel and recordInteraction reading the    *)
(* same channel are called by concurrent callers, the beta stored in the     *)
(* record is the channel's value before the write (the read ran first) or    *)
(* the clamped value written (the write ran first), never any other value,   *)
(* and it is always within [0.1, 3.0]; a write never changes a stored beta.  *)
C26_NoTornBeta ==
    [][/\ (RecordCall /\ last'.resource \in Channels) =>
             /\ NewRecord.beta = beta[last'.resource]
             /\ beta' = beta
             /\ Le(R(1, 10), NewRecord.beta) /\ Le(NewRecord.beta, R(3, 1))
             /\ (last.op = "provision_beta" /\ last.resource = last'.resource) =>
                   NewRecord.beta = IF Lt(R(3, 1), last.value) THEN R(3, 1)
                                    ELSE IF Lt(last.value, R(1, 10)) THEN R(1, 10)
                                    ELSE last.value
       /\ ProvisionCall =>
             /\ interactions' = interactions
             /\ (last.op = "record_interaction" /\ last.resource = last'.resource) =>
                   LastRecord.beta = beta[last.resource]
      ]_vars

\* A record on compute right after the write of 5.0 to compute: it carries 3.0
C26_Witness ==
    /\ last.op = "record_interaction"
    /\ last.resource = "compute"
    /\ ~last.raised
    /\ last.ret.beta = R(3, 1)
    /\ beta["compute"] = R(3, 1)
    /\ Len(interactions) = 1

(* C27: ecosystemHealth called concurrently with recordInteraction returns  *)
(* a consistent snapshot: its cooperation index, mean beta*i, class-count    *)
(* breakdown, total interaction count, coupling network and recent events    *)
(* are all computed from one and the same ledger/events state; in every      *)
(* report the three class counts sum to min(50, total interactions) and      *)
(* threshold_zone_count and conflict_count equal the breakdown's threshold   *)
(* and conflict entries.                                                     *)
C27_HealthSnapshot ==
    (last.op = "ecosystem_health" /\ ~last.raised) =>
        LET h      == last.ret
            len    == Len(interactions)
            first  == IF len < 50 THEN 1 ELSE len - 49
            window == first..len
            bi(k)  == Mul(interactions[k].beta, i_factor(interactions[k]))
            shown  == IF Len(events) < 10 THEN Len(events) ELSE 10
        IN  /\ h.n_interactions_total = len
            /\ h.interaction_breakdown["cooperative"]
                  + h.interaction_breakdown["threshold"]
                  + h.interaction_breakdown["conflict"]
                  = IF len < 50 THEN len ELSE 50
            /\ h.interaction_breakdown["threshold"] =
                  Cardinality({k \in window : InThresholdZone(bi(k))})
            /\ h.interaction_breakdown["conflict"] =
                  Cardinality({k \in window : InConflictZone(bi(k))})
            /\ h.threshold_zone_count = h.interaction_breakdown["threshold"]
            /\ h.conflict_count = h.interaction_breakdown["conflict"]
            /\ h.cooperation_index = Round(CooperationIndexOf(interactions), 4)
            /\ h.mean_beta_i =
                  IF len = 0 THEN R(0, 1)
                  ELSE Round(Div(SumBetaI(SubSeq(interactions, first, len)),
                                 R(len - first + 1, 1)), 4)
            /\ h.omega = Omega(agents, interactions)
            /\ Len(h.recent_events) = shown
            /\ \A k \in 1..shown :
                  h.recent_events[k].event_id
                     = events[Len(events) - shown + k].event_id

\* A report taken right after a Conflict record was added to a ledger of 10
\* Conflict and 40 Cooperative records: 51 records in total, the last 50 of
\* them counted (the oldest Conflict record is not), and the new event is the
\* last of the 10 events shown out of 11
C27_Witness ==
    /\ last.op = "ecosystem_health"
    /\ ~last.raised
    /\ writes = 1
    /\ Len(interactions) = 51
    /\ last.ret.n_interactions_total = 51
    /\ last.ret.conflict_count = 10
    /\ last.ret.interaction_breakdown["cooperative"] = 40
    /\ Len(events) = 11
    /\ Len(last.ret.recent_events) = 10
    /\ last.ret.recent_events[10].event_id = events[11].event_id

(* C28: provisionBeta(resource, value) on one of the five channels changes   *)
(* only that channel's scalar: the other four channels, the registry, the    *)
(* ledger, the events log and the event counter are unchanged, and only      *)
(* interactions recorded afterwards with that resource type see the new      *)
(* value.                                                                    *)
C28_ProvisionFrame ==
    [][/\ (ProvisionCall /\ last'.resource \in Channels) =>
             /\ DOMAIN beta' = DOMAIN beta
             /\ \A c \in DOMAIN beta : c # last'.resource => beta'[c] = beta[c]
             /\ agents' = agents
             /\ interactions' = interactions
             /\ events' = events
             /\ event_counter' = event_counter
       /\ (RecordCall /\ last.op = "provision_beta" /\ last.resource \in Channels
             /\ last'.resource \in Channels) =>
             IF last'.resource = last.resource
             THEN NewRecord.beta = beta[last.resource]
             ELSE NewRecord.beta = beta[last'.resource]
      ]_vars

\* With an agent registered, storage was provisioned to 3.0 and the next
\* record on storage carries 3.0; compute is still at its default
C28_Witness ==
    /\ last.op = "record_interaction"
    /\ last.resource = "storage"
    /\ Len(agents) = 1
    /\ Len(interactions) = 1
    /\ interactions[1].beta = R(3, 1)
    /\ beta["storage"] = R(3, 1)
    /\ beta["compute"] = R(1, 1)

(* C29: after any sequence of kernel operations run one at a time, the       *)
(* events log is the image, in order, of the non-Cooperative records of the  *)
(* full ledger: the k-th event has the participants of the k-th              *)
(* Threshold/Conflict record and its pre value equals that record's beta*i   *)
(* (so every event has pre value >= 0.70, action Nudge iff pre < 1.00, and   *)
(* action never RouteService, AgentSubstitute or None); a Cooperative record *)
(* adds no event and does not advance the event counter.                     *)
C29_EventsImageOfLedger ==
    [][/\ LET f == Flagged(interactions')
          IN  /\ Len(events') = Len(f)
              /\ \A k \in DOMAIN events' :
                    LET e == events'[k]
                    IN  /\ <<e.agent_a, e.agent_b>> = <<f[k].agent_a, f[k].agent_b>>
                        /\ e.beta_i_pre = Mul(f[k].beta, i_factor(f[k]))
                        /\ Le(R(7, 10), e.beta_i_pre)
                        /\ (e.action = "nudge") <=> Lt(e.beta_i_pre, R(1, 1))
                        /\ e.action \in {"nudge", "niche_divergence", "provision_beta"}
       /\ (RecordCall /\ IsFloat(NewRecord.beta)
             /\ Lt(Mul(NewRecord.beta, i_factor(NewRecord)), R(7, 10))) =>
             /\ events' = events
             /\ event_counter' = event_counter
      ]_vars

\* A Threshold record logged a nudge, and the Cooperative record recorded after
\* it left the log and the counter at one
C29_Witness ==
    /\ last.op = "record_interaction"
    /\ Len(interactions) = 2
    /\ IsFloat(interactions[1].beta)
    /\ interaction_type(interactions[1]) = THRESHOLD
    /\ IsFloat(interactions[2].beta)
    /\ Lt(beta_i(interactions[2]), R(7, 10))
    /\ Len(events) = 1
    /\ events[1].action = "nudge"
    /\ event_counter = 1

(* C30: updateMaturity never demotes: the only status it ever writes is     *)
(* Active, so an agent that is Active stays Active under any sequence of     *)
(* updateMaturity calls even when its maturity falls below 0.75 (down to 0), *)
(* and a Maturing agent whose maturity stays below 0.75 stays Maturing.      *)
C30_NeverDemotes ==
    [][\A id \in Registered(agents) :
          (UpdateStep /\ last'.agent_id = id) =>
             LET before == ProfileOf(agents, id).status
                 after  == ProfileOf(agents', id).status
                 m      == ProfileOf(agents', id).phi
             IN  /\ after \in {before, "active"}
                 /\ before = "active" => after = "active"
                 /\ (before = "maturing" /\ Lt(m, R(75, 100))) => after = "maturing"
      ]_vars

\* The agent registered Active at 0.02 is still Active after two updates with
\* outcome quality 0.1 that took its maturity to 0
C30_Witness ==
    /\ last.op = "update_phi"
    /\ last.value = R(1, 10)
    /\ \E k \in DOMAIN agents :
          /\ agents[k].agent_id = last.agent_id
          /\ agents[k].task_count = 2
          /\ agents[k].phi = R(0, 1)
          /\ agents[k].status = "active"

============================================================================
